---- MODULE Spec2Model ----
(***************************************************************************)
(* Model of the position-reallocation backtest                             *)
(* (src/simulador_estrategia.py).                                          *)
(*                                                                         *)
(* executar_simulacao_estrategia walks an OHLCV series candle by candle,   *)
(* alternating between COMPRADO (holding the asset) and VENDIDO (holding   *)
(* its cash value).  One step of the model is one iteration of the loop.   *)
(*                                                                         *)
(* Numbers.  Prices and percentages are integers.  Every float the code    *)
(* derives from them (triggers, quantities, notionals, profits) is an      *)
(* exact rational <<n, d>> in lowest terms with d > 0, computed with the   *)
(* same operations, in the same order, as the code.  Rounding of IEEE      *)
(* doubles is not modelled.  float('inf') is the integer inf, larger than  *)
(* every price of the model.                                               *)
(*                                                                         *)
(* Indices are 0-based as in the code; iloc(df, k) reads row k.            *)
(***************************************************************************)
EXTENDS Integers, Sequences, FiniteSets, TLC

VARIABLES
    dados_historicos,           \* the series: sequence of candles
    quantidade_inicial,         \* argument (an integer quantity)
    percentual_desvalorizacao,  \* argument: sell percentage
    percentual_valorizacao,     \* argument: buy percentage
    pc,                         \* position in the function being run
    i,                          \* loop index (0-based)
    estado_atual,               \* "COMPRADO" | "VENDIDO"
    operacoes,                  \* the trade log
    quantidade_tokens_atual,    \* rational
    preco_minimo_apos_venda,    \* price, or inf
    indice_venda,               \* index of the last VENDA, -1 before any
    retorno,                    \* <<>> until the function returns, then
                                \* <<operacoes, metricas>>
    validacao,                  \* <<>>, or the (bool, message) a validator
                                \* returned
    config,                     \* the application's configuration dict
    simulacao_iniciada,         \* executar_simulacao_estrategia was called
    exibicao,                   \* what the page shows for the run
    timestamp_busca,            \* timestamp_atual of buscar_dados_historicos
    dados_completos,            \* rows fetched so far (their timestamps)
    exchange,                   \* what the exchange answers with
    mantissa                    \* bits of the floats' significand; 0 when
                                \* the arithmetic is exact

\* State of the simulation function.
sim_vars == <<dados_historicos, quantidade_inicial, percentual_desvalorizacao,
              percentual_valorizacao, pc, i, estado_atual, operacoes,
              quantidade_tokens_atual, preco_minimo_apos_venda, indice_venda,
              retorno>>

\* State of the application around it: validators, page, data fetch.
externas == <<validacao, config, simulacao_iniciada, exibicao,
              timestamp_busca, dados_completos, exchange, mantissa>>

vars == <<sim_vars, externas>>

-----------------------------------------------------------------------------
(* Bounds of the model *)

\* Longest series among the freely enumerated (short) series.
MaxVelas == 4

-----------------------------------------------------------------------------
(* Rational arithmetic standing for the code's float arithmetic: exact when
   mantissa = 0, rounded to a binary float of `mantissa` significant bits
   after every operation otherwise *)

Abs(x) == IF x < 0 THEN -x ELSE x

RECURSIVE GCD(_, _)
GCD(a, b) == IF b = 0 THEN a ELSE GCD(b, a % b)

\* n/d in lowest terms with a positive denominator (d # 0).
Rat(n, d) ==
    LET g == GCD(Abs(n), Abs(d))
        s == IF d < 0 THEN -1 ELSE 1
    IN  <<(s * n) \div g, (s * d) \div g>>

R(n) == <<n, 1>>

RECURSIVE Pot2(_)
Pot2(k) == IF k = 0 THEN 1 ELSE 2 * Pot2(k - 1)

\* <<n, d, e>> with n/d * 2^e the value n0/d0 and the significand n/d in
\* [2^(bits-1), 2^bits)   (n0, d0 > 0).
RECURSIVE Normalizar(_, _, _, _)
Normalizar(n, d, e, bits) ==
    IF n >= Pot2(bits) * d THEN Normalizar(n, 2 * d, e + 1, bits)
    ELSE IF n < Pot2(bits - 1) * d THEN Normalizar(2 * n, d, e - 1, bits)
    ELSE <<n, d, e>>

\* The integer nearest to n/d, ties to the even one (n >= 0, d > 0).
ParMaisProximo(n, d) ==
    LET q == n \div d
        r == n % d
    IN  IF 2 * r > d \/ (2 * r = d /\ q % 2 = 1) THEN q + 1 ELSE q

\* Round-to-nearest-even of a positive rational to `bits` significant bits.
ArredPositivo(x, bits) ==
    LET nde == Normalizar(x[1], x[2], 0, bits)
        m == ParMaisProximo(nde[1], nde[2])
    IN  IF nde[3] >= 0 THEN Rat(m * Pot2(nde[3]), 1)
                       ELSE Rat(m, Pot2(-nde[3]))

\* The float an operation stores for the exact result x.
Arred(x) ==
    IF mantissa = 0 \/ x[1] = 0 THEN x
    ELSE IF x[1] > 0 THEN ArredPositivo(x, mantissa)
    ELSE LET y == ArredPositivo(<<-x[1], x[2]>>, mantissa)
         IN  <<-y[1], y[2]>>

RAdd(a, b) == Arred(Rat(a[1] * b[2] + b[1] * a[2], a[2] * b[2]))
RSub(a, b) == Arred(Rat(a[1] * b[2] - b[1] * a[2], a[2] * b[2]))
RMul(a, b) == Arred(Rat(a[1] * b[1], a[2] * b[2]))
RDiv(a, b) == Arred(Rat(a[1] * b[2], a[2] * b[1]))
RLt(a, b)  == a[1] * b[2] < b[1] * a[2]
RLeq(a, b) == a[1] * b[2] <= b[1] * a[2]
RGt(a, b)  == RLt(b, a)
RGeq(a, b) == RLeq(b, a)

Max2(a, b) == IF a >= b THEN a ELSE b
Min2(a, b) == IF a <= b THEN a ELSE b

-----------------------------------------------------------------------------
(* The series *)

\* float('inf'), the running minimum while no VENDA is open.
inf == 999999

\* Sampling cadence of the series, in hours ('4h' candles).
Periodo == 4

\* Row k (0-based) of a DataFrame: dados_historicos.iloc[k].
iloc(df, k) == df[k + 1]

\* dados_historicos.iloc[a:b] for 0 <= a: rows a .. b-1, clipped to the frame.
iloc_slice(df, a, b) == SubSeq(df, a + 1, Min2(b, Len(df)))

\* Series.max() of a non-empty column of numbers.
RECURSIVE SeqMax(_)
SeqMax(s) == IF Len(s) = 1 THEN s[1] ELSE Max2(s[1], SeqMax(Tail(s)))

Coluna(df, campo) == [k \in 1..Len(df) |-> df[k][campo]]

-----------------------------------------------------------------------------
(* Inputs *)

\* Closing prices of the model's candles.
Precos == {9, 10, 11}

\* A candle's high is its close, or one above it (close <= high).
Velas == {[high |-> c + d, close |-> c] : c \in Precos, d \in {0, 1}}

\* (sell percentage, buy percentage): both inside the [1, 20] the
\* parameter validation accepts, the two ends included.
Parametros == {<<10, 10>>, <<1, 20>>, <<20, 1>>}

Quantidades == {1, 2}

\* The series whose candles are f[1], f[2], ...: timestamps ascend strictly,
\* one period apart (open, low and volume are never read by the simulation).
Serie(f) ==
    [k \in 1..Len(f) |->
        [timestamp |-> Periodo * (k - 1), high |-> f[k].high, close |-> f[k].close]]

\* Every series of at most MaxVelas candles, the empty one included.
SeriesCurtas ==
    UNION {{Serie(f) : f \in [1..n -> Velas]} : n \in 0..MaxVelas}

-----------------------------------------------------------------------------
(* executar_simulacao_estrategia: the rolling window and the triggers *)

tamanho_janela == 42

\* Series long enough for the window to slide: a first candle, tamanho_janela-2
\* or tamanho_janela-1 flat candles of one price, and a last candle.  With
\* tamanho_janela-1 flat candles the first candle has just left the window of
\* the last one.
SeriesLongas ==
    {Serie(<<v>> \o [k \in 1..n |-> [high |-> c, close |-> c]] \o <<w>>) :
        v \in Velas, w \in Velas, c \in Precos,
        n \in {tamanho_janela - 2, tamanho_janela - 1}}

\* Variant of inicio_janela: a window one candle too long.
inicio_janela_longa(idx) == Max2(0, idx - tamanho_janela)

inicio_janela(idx) == Max2(0, idx - tamanho_janela + 1)

janela_dados(df, idx) == iloc_slice(df, inicio_janela(idx), idx + 1)

preco_maximo_janela(df, idx) == SeqMax(Coluna(janela_dados(df, idx), "high"))

\* Variant of preco_venda: the drop is added to the maximum instead of
\* being taken from it.
preco_venda_soma(maximo, pct) ==
    RMul(R(maximo), RAdd(R(1), RDiv(R(pct), R(100))))

\* preco_maximo_janela * (1 - percentual_desvalorizacao / 100)
preco_venda(maximo, pct) ==
    RMul(R(maximo), RSub(R(1), RDiv(R(pct), R(100))))

\* Variant of condicao_venda: strict comparison.
condicao_venda_estrita(preco_atual, gatilho) == RLt(R(preco_atual), gatilho)

\* preco_atual <= preco_venda
condicao_venda(preco_atual, gatilho) == RLeq(R(preco_atual), gatilho)

\* preco_minimo_apos_venda * (1 + percentual_valorizacao / 100)
preco_compra(minimo, pct) ==
    RMul(R(minimo), RAdd(R(1), RDiv(R(pct), R(100))))

\* Variant of condicao_compra: strict comparison.
condicao_compra_estrita(preco_atual, gatilho) == RGt(R(preco_atual), gatilho)

\* preco_atual >= preco_compra
condicao_compra(preco_atual, gatilho) == RGeq(R(preco_atual), gatilho)

\* Variant of valor_usd_disponivel: the notional of the first trade of the
\* log instead of the last.
valor_usd_primeira(ops) == ops[1].valor_usd_posicao

\* operacoes[-1]['valor_usd_posicao']
valor_usd_disponivel(ops) == ops[Len(ops)].valor_usd_posicao

-----------------------------------------------------------------------------
(* Trade records *)

executar_operacao_venda(timestamp, preco, quantidade_tokens) ==
    LET valor_usd_total == RMul(quantidade_tokens, R(preco))
    IN  [timestamp |-> timestamp,
         tipo |-> "VENDA",
         preco |-> preco,
         quantidade_tokens |-> quantidade_tokens,
         total_tokens_apos_operacao |-> R(0),
         valor_usd_posicao |-> valor_usd_total,
         lucro_operacao |-> R(0),
         lucro_percentual |-> R(0)]

executar_operacao_compra(timestamp, preco, quantidade_tokens, quantidade_tokens_anterior) ==
    LET valor_usd_total == RMul(quantidade_tokens, R(preco))
        lucro_tokens == RSub(quantidade_tokens, quantidade_tokens_anterior)
        lucro_percentual ==
            IF RGt(quantidade_tokens_anterior, R(0))
            THEN RMul(RDiv(lucro_tokens, quantidade_tokens_anterior), R(100))
            ELSE R(0)
    IN  [timestamp |-> timestamp,
         tipo |-> "COMPRA",
         preco |-> preco,
         quantidade_tokens |-> quantidade_tokens,
         total_tokens_apos_operacao |-> quantidade_tokens,
         valor_usd_posicao |-> valor_usd_total,
         lucro_operacao |-> lucro_tokens,
         lucro_percentual |-> lucro_percentual]

-----------------------------------------------------------------------------
(* calcular_metricas_performance *)

\* [op for op in operacoes if op['tipo'] == 'COMPRA']
IsCompra(op) == op.tipo = "COMPRA"
Compras(ops) == SelectSeq(ops, IsCompra)

Positivo(op) == RGt(op.lucro_operacao, R(0))
Negativo(op) == RLt(op.lucro_operacao, R(0))

\* Variant of tokens_final: the last trade's resulting quantity whatever its
\* kind.
tokens_final_ultima(ops, qtd_inicial) ==
    ops[Len(ops)].total_tokens_apos_operacao

\* The ending quantity of a non-empty log.
tokens_final(ops, qtd_inicial) ==
    LET ultima_operacao == ops[Len(ops)]
        compras_executadas == Compras(ops)
    IN  IF ultima_operacao.tipo = "COMPRA"
        THEN ultima_operacao.total_tokens_apos_operacao
        ELSE IF Len(compras_executadas) > 0
             THEN compras_executadas[Len(compras_executadas)].total_tokens_apos_operacao
             ELSE R(qtd_inicial)

calcular_metricas_performance(ops, qtd_inicial) ==
    IF Len(ops) = 0
    THEN [total_operacoes |-> 0,
          operacoes_lucrativas |-> 0,
          operacoes_prejuizo |-> 0,
          tokens_inicial |-> R(qtd_inicial),
          tokens_final |-> R(qtd_inicial),
          lucro_total_tokens |-> R(0),
          lucro_percentual_total |-> R(0)]
    ELSE
        LET compras == Compras(ops)
            final == tokens_final(ops, qtd_inicial)
            lucro_total_tokens == RSub(final, R(qtd_inicial))
        IN  [total_operacoes |-> Len(ops),
             operacoes_lucrativas |-> Len(SelectSeq(compras, Positivo)),
             operacoes_prejuizo |-> Len(SelectSeq(compras, Negativo)),
             tokens_inicial |-> R(qtd_inicial),
             tokens_final |-> final,
             lucro_total_tokens |-> lucro_total_tokens,
             lucro_percentual_total |->
                 IF qtd_inicial > 0
                 THEN RMul(RDiv(lucro_total_tokens, R(qtd_inicial)), R(100))
                 ELSE R(0)]

-----------------------------------------------------------------------------
(* executar_simulacao_estrategia as a state machine *)

\* The empty dict {} the function returns for an empty series: a record
\* with no field.
dict_vazio == <<>>

\* Nothing of the application is running.
ExternasOciosas ==
    /\ validacao = <<>>
    /\ config = <<>>
    /\ simulacao_iniciada = FALSE
    /\ exibicao = "nada"
    /\ timestamp_busca = 0
    /\ dados_completos = <<>>
    /\ exchange = <<>>
    /\ mantissa = 0

\* The call: any series, any parameters.  The locals hold the values the
\* function gives them before the loop.
Init ==
    /\ dados_historicos \in SeriesCurtas \cup SeriesLongas
    /\ quantidade_inicial \in Quantidades
    /\ \E par \in Parametros :
          /\ percentual_desvalorizacao = par[1]
          /\ percentual_valorizacao = par[2]
    /\ pc = "inicio"
    /\ i = 0
    /\ estado_atual = "COMPRADO"
    /\ operacoes = <<>>
    /\ quantidade_tokens_atual = R(quantidade_inicial)
    /\ preco_minimo_apos_venda = inf
    /\ indice_venda = -1
    /\ retorno = <<>>
    /\ ExternasOciosas

entradas == <<dados_historicos, quantidade_inicial, percentual_desvalorizacao,
              percentual_valorizacao>>

locais == <<i, estado_atual, operacoes, quantidade_tokens_atual,
            preco_minimo_apos_venda, indice_venda>>

\* if dados_historicos.empty: return [], {}
RetornoVazio ==
    /\ pc = "inicio"
    /\ Len(dados_historicos) = 0
    /\ retorno' = <<<<>>, dict_vazio>>
    /\ pc' = "retornou"
    /\ UNCHANGED <<externas, entradas, locais>>

\* The assignments before the loop.
Inicializar ==
    /\ pc = "inicio"
    /\ Len(dados_historicos) # 0
    /\ estado_atual' = "COMPRADO"
    /\ operacoes' = <<>>
    /\ quantidade_tokens_atual' = R(quantidade_inicial)
    /\ preco_minimo_apos_venda' = inf
    /\ indice_venda' = -1
    /\ i' = 0
    /\ pc' = "loop"
    /\ UNCHANGED <<externas, entradas, retorno>>

NoLoop == pc = "loop" /\ i < Len(dados_historicos)

preco_atual == iloc(dados_historicos, i).close
timestamp_atual == iloc(dados_historicos, i).timestamp

\* The sell trigger holds at the current candle.
GatilhoVenda ==
    condicao_venda(preco_atual,
                   preco_venda(preco_maximo_janela(dados_historicos, i),
                               percentual_desvalorizacao))

\* The buy trigger holds at the current candle for running minimum m.
GatilhoCompra(m) ==
    condicao_compra(preco_atual, preco_compra(m, percentual_valorizacao))

\* Variant of Venda: the trade is logged and the state is left COMPRADO.
Venda_sem_transicao ==
    /\ NoLoop
    /\ estado_atual = "COMPRADO"
    /\ GatilhoVenda
    /\ operacoes' = Append(operacoes,
            executar_operacao_venda(timestamp_atual, preco_atual,
                                    quantidade_tokens_atual))
    /\ estado_atual' = "COMPRADO"
    /\ preco_minimo_apos_venda' = preco_atual
    /\ indice_venda' = i
    /\ i' = i + 1
    /\ UNCHANGED <<externas, entradas, pc, quantidade_tokens_atual, retorno>>

\* Variant of Venda: having sold everything, the quantity held is set to 0.
Venda_zera_quantidade ==
    /\ NoLoop
    /\ estado_atual = "COMPRADO"
    /\ GatilhoVenda
    /\ operacoes' = Append(operacoes,
            executar_operacao_venda(timestamp_atual, preco_atual,
                                    quantidade_tokens_atual))
    /\ estado_atual' = "VENDIDO"
    /\ preco_minimo_apos_venda' = preco_atual
    /\ indice_venda' = i
    /\ quantidade_tokens_atual' = R(0)
    /\ i' = i + 1
    /\ UNCHANGED <<externas, entradas, pc, retorno>>

\* COMPRADO, trigger met: sell everything at the close.
Venda ==
    /\ NoLoop
    /\ estado_atual = "COMPRADO"
    /\ GatilhoVenda
    /\ operacoes' = Append(operacoes,
            executar_operacao_venda(timestamp_atual, preco_atual,
                                    quantidade_tokens_atual))
    /\ estado_atual' = "VENDIDO"
    /\ preco_minimo_apos_venda' = preco_atual
    /\ indice_venda' = i
    /\ i' = i + 1
    /\ UNCHANGED <<externas, entradas, pc, quantidade_tokens_atual, retorno>>

\* COMPRADO, trigger not met: nothing changes.
ManterComprado ==
    /\ NoLoop
    /\ estado_atual = "COMPRADO"
    /\ ~GatilhoVenda
    /\ i' = i + 1
    /\ UNCHANGED <<externas, entradas, pc, estado_atual, operacoes,
                   quantidade_tokens_atual, preco_minimo_apos_venda,
                   indice_venda, retorno>>

\* Variant of quantidade_anterior_compra: the profit is always measured
\* against the quantity the run started with.
quantidade_anterior_inicial == R(quantidade_inicial)

\* The quantidade_tokens_anterior handed to executar_operacao_compra.
quantidade_anterior_compra == quantidade_tokens_atual

\* Variant of Compra: after the COMPRA the same candle is evaluated again,
\* now in the COMPRADO branch.
Compra_mesmo_periodo ==
    /\ NoLoop
    /\ estado_atual = "VENDIDO"
    /\ LET minimo == Min2(preco_minimo_apos_venda, preco_atual)
           nova_quantidade_tokens ==
               RDiv(valor_usd_disponivel(operacoes), R(preco_atual))
       IN  /\ GatilhoCompra(minimo)
           /\ operacoes' = Append(operacoes,
                   executar_operacao_compra(timestamp_atual, preco_atual,
                       nova_quantidade_tokens, quantidade_anterior_compra))
           /\ quantidade_tokens_atual' = nova_quantidade_tokens
    /\ estado_atual' = "COMPRADO"
    /\ preco_minimo_apos_venda' = inf
    /\ i' = i
    /\ UNCHANGED <<externas, entradas, pc, indice_venda, retorno>>

\* Variant of Compra: the running minimum is not reset after the COMPRA.
Compra_sem_reset ==
    /\ NoLoop
    /\ estado_atual = "VENDIDO"
    /\ LET minimo == Min2(preco_minimo_apos_venda, preco_atual)
           nova_quantidade_tokens ==
               RDiv(valor_usd_disponivel(operacoes), R(preco_atual))
       IN  /\ GatilhoCompra(minimo)
           /\ operacoes' = Append(operacoes,
                   executar_operacao_compra(timestamp_atual, preco_atual,
                       nova_quantidade_tokens, quantidade_anterior_compra))
           /\ quantidade_tokens_atual' = nova_quantidade_tokens
           /\ preco_minimo_apos_venda' = minimo
    /\ estado_atual' = "COMPRADO"
    /\ i' = i + 1
    /\ UNCHANGED <<externas, entradas, pc, indice_venda, retorno>>

\* VENDIDO, trigger met on the updated minimum: buy back with the whole
\* notional of the last VENDA.
Compra ==
    /\ NoLoop
    /\ estado_atual = "VENDIDO"
    /\ LET minimo == Min2(preco_minimo_apos_venda, preco_atual)
           nova_quantidade_tokens ==
               RDiv(valor_usd_disponivel(operacoes), R(preco_atual))
       IN  /\ GatilhoCompra(minimo)
           /\ operacoes' = Append(operacoes,
                   executar_operacao_compra(timestamp_atual, preco_atual,
                       nova_quantidade_tokens, quantidade_anterior_compra))
           /\ quantidade_tokens_atual' = nova_quantidade_tokens
    /\ estado_atual' = "COMPRADO"
    /\ preco_minimo_apos_venda' = inf
    /\ i' = i + 1
    /\ UNCHANGED <<externas, entradas, pc, indice_venda, retorno>>

\* VENDIDO, trigger not met: only the running minimum moves.
ManterVendido ==
    /\ NoLoop
    /\ estado_atual = "VENDIDO"
    /\ LET minimo == Min2(preco_minimo_apos_venda, preco_atual)
       IN  /\ ~GatilhoCompra(minimo)
           /\ preco_minimo_apos_venda' = minimo
    /\ i' = i + 1
    /\ UNCHANGED <<externas, entradas, pc, estado_atual, operacoes,
                   quantidade_tokens_atual, indice_venda, retorno>>

\* After the last candle: compute the metrics and return.
Retorno ==
    /\ pc = "loop"
    /\ i = Len(dados_historicos)
    /\ retorno' = <<operacoes,
                    calcular_metricas_performance(operacoes, quantidade_inicial)>>
    /\ pc' = "retornou"
    /\ UNCHANGED <<externas, entradas, locais>>

Next ==
    \/ RetornoVazio
    \/ Inicializar
    \/ Venda
    \/ ManterComprado
    \/ Compra
    \/ ManterVendido
    \/ Retorno

Spec == Init /\ [][Next]_vars

-----------------------------------------------------------------------------
(* Vocabulary of the properties, stated on the series and the log alone *)

SetMax(S) == CHOOSE x \in S : \A y \in S : y <= x
SetMin(S) == CHOOSE x \in S : \A y \in S : x <= y

NumVelas == Len(dados_historicos)
Close(k) == iloc(dados_historicos, k).close
High(k) == iloc(dados_historicos, k).high

\* The log has an entry at position k, of the given kind.
EhVenda(k) == operacoes[k].tipo = "VENDA"
EhCompra(k) == operacoes[k].tipo = "COMPRA"

\* The candle a trade was made on: the one that carries its timestamp.
TemVela(op) ==
    \E k \in 0..(NumVelas - 1) : iloc(dados_historicos, k).timestamp = op.timestamp
Indice(op) ==
    CHOOSE k \in 0..(NumVelas - 1) :
        iloc(dados_historicos, k).timestamp = op.timestamp

\* Maximum high over the candles max(0, k - 42 + 1) .. k.
MaximoNaJanela(k) == SetMax({High(j) : j \in Max2(0, k - 42 + 1)..k})

\* close[k] <= rolling high * (1 - sell percentage / 100)
DeveVender(k) ==
    Close(k) * 100 <= MaximoNaJanela(k) * (100 - percentual_desvalorizacao)

\* Minimum close over the candles s .. j.
MinimoDesde(s, j) == SetMin({Close(m) : m \in s..j})

\* close[j] >= (minimum close since the VENDA at s) * (1 + buy percentage / 100)
DeveComprar(s, j) ==
    Close(j) * 100 >= MinimoDesde(s, j) * (100 + percentual_valorizacao)

\* First candle of the interval that the trade at position k of the log
\* closes: candle 0, or the candle after the previous trade's.
InicioIntervalo(k) == IF k = 1 THEN 0 ELSE Indice(operacoes[k - 1]) + 1

\* First candle of the interval still open after the last trade.
InicioAberto ==
    IF Len(operacoes) = 0 THEN 0 ELSE Indice(operacoes[Len(operacoes)]) + 1

\* Quantity held just before the trade at position k of the log.
QuantidadeAntes(k) ==
    IF k = 1 THEN R(quantidade_inicial)
    ELSE operacoes[k - 1].total_tokens_apos_operacao

Retornou == Len(retorno) = 2

-----------------------------------------------------------------------------
(* C1 *)

Alterna(ops) ==
    \A k \in 1..Len(ops) :
        ops[k].tipo = IF k % 2 = 1 THEN "VENDA" ELSE "COMPRA"

\* C1: after every processed candle, and in the log returned, the trades
\* alternate VENDA, COMPRA, VENDA, ... starting with a VENDA; the log may
\* end on a VENDA.
C1_Alternancia ==
    /\ Alterna(operacoes)
    /\ Retornou => Alterna(retorno[1])

\* A returned log of at least three trades that ends on a VENDA.
C1_Witness ==
    /\ Retornou
    /\ Len(retorno[1]) >= 3
    /\ retorno[1][Len(retorno[1])].tipo = "VENDA"

-----------------------------------------------------------------------------
(* C2 *)

\* C2: every VENDA of the log was made on a candle that meets the sell
\* condition, at that candle's close and timestamp, and no earlier candle of
\* its COMPRADO interval meets it; while COMPRADO no processed candle of the
\* open interval meets it; the state is VENDIDO exactly when the log ends on
\* a VENDA.
C2_Venda ==
    /\ \A k \in 1..Len(operacoes) :
          EhVenda(k) =>
            /\ TemVela(operacoes[k])
            /\ LET s == Indice(operacoes[k])
               IN  /\ s < i
                   /\ DeveVender(s)
                   /\ operacoes[k].preco = Close(s)
                   /\ \A j \in InicioIntervalo(k)..(s - 1) : ~DeveVender(j)
    /\ estado_atual = "COMPRADO" =>
          \A j \in InicioAberto..(i - 1) : ~DeveVender(j)
    /\ estado_atual = "VENDIDO" <=>
          (Len(operacoes) > 0 /\ EhVenda(Len(operacoes)))

\* A VENDA on a candle whose window no longer starts at candle 0, after
\* candles of the same interval that did not qualify.
C2_Witness ==
    \E k \in 1..Len(operacoes) :
        /\ EhVenda(k)
        /\ Indice(operacoes[k]) >= 42
        /\ InicioIntervalo(k) < Indice(operacoes[k])

-----------------------------------------------------------------------------
(* C3 *)

\* C3: every COMPRA of the log follows a VENDA, was made on a later candle
\* that meets the buy condition on the minimum close since that VENDA (the
\* candle's own close included), and no candle between the two meets it;
\* while VENDIDO no processed candle after the VENDA meets it and the
\* running minimum is the minimum close from the VENDA on; a log that ends
\* on a COMPRA leaves the state COMPRADO.
C3_Compra ==
    /\ \A k \in 1..Len(operacoes) :
          EhCompra(k) =>
            /\ k > 1
            /\ EhVenda(k - 1)
            /\ TemVela(operacoes[k])
            /\ LET s == Indice(operacoes[k - 1])
                   b == Indice(operacoes[k])
               IN  /\ s < b
                   /\ b < i
                   /\ DeveComprar(s, b)
                   /\ operacoes[k].preco = Close(b)
                   /\ \A j \in (s + 1)..(b - 1) : ~DeveComprar(s, j)
    /\ estado_atual = "VENDIDO" =>
          LET s == Indice(operacoes[Len(operacoes)])
          IN  /\ \A j \in (s + 1)..(i - 1) : ~DeveComprar(s, j)
              /\ preco_minimo_apos_venda = MinimoDesde(s, i - 1)
    /\ (Len(operacoes) > 0 /\ EhCompra(Len(operacoes))) =>
          estado_atual = "COMPRADO"

\* A COMPRA made after the close fell below the VENDA's close and at least
\* one candle was waited out.
C3_Witness ==
    \E k \in 2..Len(operacoes) :
        /\ EhCompra(k)
        /\ Indice(operacoes[k]) > Indice(operacoes[k - 1]) + 1
        /\ MinimoDesde(Indice(operacoes[k - 1]), Indice(operacoes[k]))
              < operacoes[k - 1].preco

-----------------------------------------------------------------------------
(* C4 *)

\* C4: a VENDA's notional is the quantity held before it times its candle's
\* close; a COMPRA's quantity, and the total it leaves, is the preceding
\* VENDA's notional divided by its candle's close; that quantity is the one
\* held while COMPRADO afterwards.
C4_Conservacao ==
    /\ \A k \in 1..Len(operacoes) :
          /\ EhVenda(k) =>
                /\ operacoes[k].quantidade_tokens = QuantidadeAntes(k)
                /\ operacoes[k].valor_usd_posicao =
                      RMul(QuantidadeAntes(k), R(Close(Indice(operacoes[k]))))
          /\ EhCompra(k) =>
                /\ k > 1
                /\ operacoes[k].quantidade_tokens =
                      RDiv(operacoes[k - 1].valor_usd_posicao,
                           R(Close(Indice(operacoes[k]))))
                /\ operacoes[k].total_tokens_apos_operacao =
                      operacoes[k].quantidade_tokens
    /\ (Len(operacoes) > 0 /\ EhCompra(Len(operacoes))) =>
          quantidade_tokens_atual = operacoes[Len(operacoes)].quantidade_tokens
    /\ Len(operacoes) = 0 => quantidade_tokens_atual = R(quantidade_inicial)

\* Two full cycles whose two VENDAs have different notionals.
C4_Witness ==
    /\ Len(operacoes) >= 4
    /\ EhCompra(4)
    /\ operacoes[1].valor_usd_posicao # operacoes[3].valor_usd_posicao

-----------------------------------------------------------------------------
(* C5 *)

\* C5: a COMPRA's lucro_operacao is its quantity minus the quantity held
\* just before the VENDA that precedes it, in every cycle; a VENDA has
\* lucro_operacao, lucro_percentual and total_tokens_apos_operacao zero.
C5_Lucro ==
    \A k \in 1..Len(operacoes) :
        /\ EhCompra(k) =>
              /\ k > 1
              /\ operacoes[k].lucro_operacao =
                    RSub(operacoes[k].quantidade_tokens, QuantidadeAntes(k - 1))
        /\ EhVenda(k) =>
              /\ operacoes[k].lucro_operacao = R(0)
              /\ operacoes[k].lucro_percentual = R(0)
              /\ operacoes[k].total_tokens_apos_operacao = R(0)

\* A second cycle entered with a quantity other than the initial one, whose
\* COMPRA has a non-zero profit.
C5_Witness ==
    /\ Len(operacoes) >= 4
    /\ EhCompra(4)
    /\ QuantidadeAntes(3) # R(quantidade_inicial)
    /\ operacoes[4].lucro_operacao # R(0)

-----------------------------------------------------------------------------
(* C6 *)

\* C6: at every index the loop reaches, the window read for the sell trigger
\* is exactly the candles max(0, i - 42 + 1) .. i: it starts at candle 0
\* while i < 41, lies inside the series, holds candle i itself, and the
\* rolling high is the maximum high over it.
C6_Janela ==
    NoLoop =>
        LET primeiro == Max2(0, i - 42 + 1)
            w == janela_dados(dados_historicos, i)
        IN  /\ inicio_janela(i) = primeiro
            /\ primeiro \in 0..i
            /\ i < 41 => primeiro = 0
            /\ primeiro + Len(w) - 1 <= NumVelas - 1
            /\ Len(w) = i - primeiro + 1
            /\ \A m \in 1..Len(w) : w[m] = iloc(dados_historicos, primeiro + m - 1)
            /\ w[Len(w)] = iloc(dados_historicos, i)
            /\ preco_maximo_janela(dados_historicos, i) =
                  SetMax({High(j) : j \in primeiro..i})

\* The loop is at an index whose window has slid past candle 0, and candle
\* 0's high is above every high left in the window.
C6_Witness ==
    /\ NoLoop
    /\ i >= 42
    /\ High(0) > preco_maximo_janela(dados_historicos, i)

-----------------------------------------------------------------------------
(* C7 *)

\* C7: no two trades of the log share a candle: along the log the candle
\* indices and the timestamps increase strictly, and every trade was made on
\* a candle already processed.
C7_UmaPorVela ==
    /\ \A k \in 1..Len(operacoes) :
          TemVela(operacoes[k]) /\ Indice(operacoes[k]) < i
    /\ \A k \in 1..(Len(operacoes) - 1) :
          /\ operacoes[k].timestamp < operacoes[k + 1].timestamp
          /\ Indice(operacoes[k]) < Indice(operacoes[k + 1])

\* The candle just processed produced a COMPRA although, read in the
\* COMPRADO branch, its close would also meet the sell condition.
C7_Witness ==
    /\ Len(operacoes) > 0
    /\ EhCompra(Len(operacoes))
    /\ Indice(operacoes[Len(operacoes)]) = i - 1
    /\ DeveVender(i - 1)

-----------------------------------------------------------------------------
(* C8 *)

\* Position in the log of the most recent COMPRA, 0 when there is none.
UltimaCompra(ops) ==
    SetMax({0} \cup {k \in 1..Len(ops) : ops[k].tipo = "COMPRA"})

\* The ending quantity the policy defines for a log.
QuantidadeFinal(ops) ==
    IF UltimaCompra(ops) = 0 THEN R(quantidade_inicial)
    ELSE ops[UltimaCompra(ops)].total_tokens_apos_operacao

\* C8: for every log the loop builds, calcular_metricas_performance gives
\* tokens_final = the initial quantity when there is no COMPRA (empty log,
\* or a single unmatched VENDA), else the resulting quantity of the most
\* recent COMPRA, whether the log ends on it or on a later VENDA; and
\* lucro_total_tokens = tokens_final - initial quantity.  The metrics
\* returned after a non-empty series are these.
C8_QuantidadeFinal ==
    LET m == calcular_metricas_performance(operacoes, quantidade_inicial)
    IN  /\ m.tokens_final = QuantidadeFinal(operacoes)
        /\ m.lucro_total_tokens =
              RSub(QuantidadeFinal(operacoes), R(quantidade_inicial))
        /\ (Retornou /\ NumVelas > 0) =>
              /\ retorno[2].tokens_final = QuantidadeFinal(retorno[1])
              /\ retorno[2].lucro_total_tokens =
                    RSub(retorno[2].tokens_final, R(quantidade_inicial))

\* A returned log that ends on an unmatched VENDA after a COMPRA that
\* changed the quantity.
C8_Witness ==
    /\ Retornou
    /\ Len(retorno[1]) >= 3
    /\ retorno[1][Len(retorno[1])].tipo = "VENDA"
    /\ retorno[2].tokens_final # R(quantidade_inicial)

-----------------------------------------------------------------------------
(* C9 *)

CamposMetricas ==
    {"total_operacoes", "operacoes_lucrativas", "operacoes_prejuizo",
     "tokens_inicial", "tokens_final", "lucro_total_tokens",
     "lucro_percentual_total"}

\* C9: on an empty series the function returns an empty log and a zeroed
\* metrics record: no trades, no profitable or unprofitable trades, zero
\* profit, tokens_final = tokens_inicial = quantidade_inicial.
C9_SerieVazia ==
    (Retornou /\ NumVelas = 0) =>
        /\ retorno[1] = <<>>
        /\ CamposMetricas \subseteq DOMAIN retorno[2]
        /\ retorno[2].total_operacoes = 0
        /\ retorno[2].operacoes_lucrativas = 0
        /\ retorno[2].operacoes_prejuizo = 0
        /\ retorno[2].lucro_total_tokens = R(0)
        /\ retorno[2].tokens_inicial = R(quantidade_inicial)
        /\ retorno[2].tokens_final = R(quantidade_inicial)

-----------------------------------------------------------------------------
(* C10 *)

FechamentoConstante ==
    \A k \in 0..(NumVelas - 1) : Close(k) = Close(0)

SemPavioSuperior ==
    \A k \in 0..(NumVelas - 1) : High(k) = Close(k)

\* C10 as stated: every candle has the same close, so no VENDA is emitted,
\* the state stays COMPRADO and the log is empty.
C10_FechamentoConstante ==
    FechamentoConstante => (operacoes = <<>> /\ estado_atual = "COMPRADO")

\* C10, amended: every candle has the same positive close and a high equal
\* to its close; then no VENDA is emitted, the state stays COMPRADO and the
\* log, also as returned, is empty.
C10_SerieSemPavio ==
    (FechamentoConstante /\ SemPavioSuperior) =>
        /\ operacoes = <<>>
        /\ estado_atual = "COMPRADO"
        /\ Retornou => retorno[1] = <<>>

\* A flat series longer than the window was run to its end.
C10_Witness ==
    /\ Retornou
    /\ NumVelas > 42
    /\ FechamentoConstante
    /\ SemPavioSuperior

-----------------------------------------------------------------------------
(* C15 *)

\* C15: while COMPRADO the running minimum is +infinity; while VENDIDO,
\* with candles 0 .. i-1 processed, indice_venda is the candle of the open
\* VENDA and the running minimum is the minimum close over the candles
\* indice_venda .. i-1 (just after the VENDA: its own close).
C15_MinimoCorrente ==
    /\ estado_atual = "COMPRADO" => preco_minimo_apos_venda = inf
    /\ estado_atual = "VENDIDO" =>
          /\ Len(operacoes) > 0
          /\ indice_venda = Indice(operacoes[Len(operacoes)])
          /\ indice_venda \in 0..(i - 1)
          /\ preco_minimo_apos_venda = MinimoDesde(indice_venda, i - 1)
          /\ (i - 1 = indice_venda) =>
                preco_minimo_apos_venda = Close(indice_venda)

\* VENDIDO with candles waited out after the VENDA and a running minimum
\* below the VENDA's close.
C15_Witness ==
    /\ estado_atual = "VENDIDO"
    /\ i > indice_venda + 1
    /\ preco_minimo_apos_venda < Close(indice_venda)

-----------------------------------------------------------------------------
(* C16 *)

\* C16: once the loop has been entered, at every candle and at its end,
\* the tokens_final that calcular_metricas_performance derives from the log
\* is the quantity the loop holds; the metrics returned carry that value.
C16_MetricasCoerentes ==
    /\ pc = "loop" =>
          calcular_metricas_performance(operacoes, quantidade_inicial).tokens_final
            = quantidade_tokens_atual
    /\ (Retornou /\ NumVelas > 0) =>
          retorno[2].tokens_final = quantidade_tokens_atual

\* The loop is VENDIDO on an unmatched VENDA after a full cycle that changed
\* the quantity.
C16_Witness ==
    /\ pc = "loop"
    /\ estado_atual = "VENDIDO"
    /\ Len(operacoes) = 3
    /\ quantidade_tokens_atual # R(quantidade_inicial)


-----------------------------------------------------------------------------
\* validar_parametros_estrategia (simulador_estrategia.py).  The arguments
\* are floats; here they are rationals, so that values strictly between the
\* integers are among the inputs.

percentual_minimo == 1
percentual_maximo == 20

msg_desvalorizacao == "Percentual de desvalorizacao deve estar entre 1% e 20%"
msg_valorizacao == "Percentual de valorizacao deve estar entre 1% e 20%"
msg_quantidade == "Quantidade inicial deve ser maior que zero"
msg_parametros_validos == "Parametros validos"

\* 1 <= p <= 20
percentual_no_intervalo(p) ==
    RLeq(R(percentual_minimo), p) /\ RLeq(p, R(percentual_maximo))

\* The same test with the end points left out.
validar_parametros_limites_abertos(pd, pv, q) ==
    IF ~(RLt(R(percentual_minimo), pd) /\ RLt(pd, R(percentual_maximo)))
    THEN <<FALSE, msg_desvalorizacao>>
    ELSE IF ~(RLt(R(percentual_minimo), pv) /\ RLt(pv, R(percentual_maximo)))
    THEN <<FALSE, msg_valorizacao>>
    ELSE IF RLeq(q, R(0))
    THEN <<FALSE, msg_quantidade>>
    ELSE <<TRUE, msg_parametros_validos>>

\* Three checks in sequence, each returning at once when it fails.
validar_parametros_estrategia(pd, pv, q) ==
    IF ~percentual_no_intervalo(pd)
    THEN <<FALSE, msg_desvalorizacao>>
    ELSE IF ~percentual_no_intervalo(pv)
    THEN <<FALSE, msg_valorizacao>>
    ELSE IF RLeq(q, R(0))
    THEN <<FALSE, msg_quantidade>>
    ELSE <<TRUE, msg_parametros_validos>>

\* No call of the simulation is in progress.
SimulacaoOciosa ==
    /\ i = 0
    /\ estado_atual = "COMPRADO"
    /\ operacoes = <<>>
    /\ quantidade_tokens_atual = R(0)
    /\ preco_minimo_apos_venda = inf
    /\ indice_venda = -1
    /\ retorno = <<>>

\* Percentages 0, 0.5, 1, ..., 21 and quantities -1, -0.5, 0, 0.5, 1.
PercentuaisTestados == {Rat(n, 2) : n \in 0..42}
QuantidadesTestadas == {Rat(n, 2) : n \in -2..2}

InitParametros ==
    /\ percentual_desvalorizacao \in PercentuaisTestados
    /\ percentual_valorizacao \in PercentuaisTestados
    /\ quantidade_inicial \in QuantidadesTestadas
    /\ dados_historicos = <<>>
    /\ pc = "validar_parametros"
    /\ SimulacaoOciosa
    /\ ExternasOciosas

\* The call and its return value.
ValidarParametros ==
    /\ pc = "validar_parametros"
    /\ validacao' = validar_parametros_estrategia(percentual_desvalorizacao,
                                                  percentual_valorizacao,
                                                  quantidade_inicial)
    /\ pc' = "validou"
    /\ UNCHANGED <<entradas, locais, retorno, config, mantissa, simulacao_iniciada,
                   exibicao, timestamp_busca, dados_completos, exchange>>

NextParametros == ValidarParametros

SpecParametros == InitParametros /\ [][NextParametros]_vars

\* The three conditions of rejection, stated on the arguments.
ForaDoIntervalo(p) == RLt(p, R(1)) \/ RGt(p, R(20))
QuantidadeNaoPositiva == ~RGt(quantidade_inicial, R(0))
Validou == Len(validacao) = 2

\* C11: validar_parametros_estrategia returns (False, reason) exactly when
\* the sell percentage is outside [1, 20], or the buy percentage is outside
\* [1, 20], or the quantity is <= 0, and (True, ...) otherwise; 1 and 20 are
\* accepted; the reason is that of the first failing check in the order
\* sell percentage, buy percentage, quantity.
C11_ValidacaoParametros ==
    Validou =>
        LET fora_pd == ForaDoIntervalo(percentual_desvalorizacao)
            fora_pv == ForaDoIntervalo(percentual_valorizacao)
        IN  /\ validacao[1] = ~(fora_pd \/ fora_pv \/ QuantidadeNaoPositiva)
            /\ fora_pd => validacao[2] = msg_desvalorizacao
            /\ (~fora_pd /\ fora_pv) => validacao[2] = msg_valorizacao
            /\ (~fora_pd /\ ~fora_pv /\ QuantidadeNaoPositiva) =>
                  validacao[2] = msg_quantidade
            /\ validacao[1] => validacao[2] = msg_parametros_validos
            /\ ( /\ percentual_desvalorizacao \in {R(1), R(20)}
                 /\ percentual_valorizacao \in {R(1), R(20)}
                 /\ ~QuantidadeNaoPositiva ) => validacao[1]

\* Accepted at the end points 1 and 20.
C11_Witness ==
    /\ Validou
    /\ validacao[1]
    /\ percentual_desvalorizacao = R(1)
    /\ percentual_valorizacao = R(20)

-----------------------------------------------------------------------------
\* validar_dados_para_analise (analisador_resultados.py).

\* A missing close (NaN): a value that is not a price.  Every comparison
\* with it is false, so it is tested with isna before any comparison.
nan == -999999

minimo_velas == 168

msg_dados_vazios == "Dados historicos nao foram carregados corretamente"
msg_dados_insuficientes == "Dados historicos insuficientes (minimo 7 dias necessarios)"
msg_precos_invalidos == "Dados historicos contem precos invalidos"
msg_dados_validos == "Dados validos para analise"

isna(x) == x = nan

\* x <= 0 on floats: false for NaN.
menor_ou_igual_zero(x) == ~isna(x) /\ x <= 0

\* dados_historicos['close'].isna().any()
algum_ausente(df) == \E k \in 1..Len(df) : isna(df[k].close)

\* (dados_historicos['close'] <= 0).any()
algum_nao_positivo(df) == \E k \in 1..Len(df) : menor_ou_igual_zero(df[k].close)

\* Variant of validar_dados_para_analise: a series of exactly minimo_velas
\* candles is refused.
validar_dados_minimo_excluido(df) ==
    IF Len(df) = 0
    THEN <<FALSE, msg_dados_vazios>>
    ELSE IF Len(df) <= minimo_velas
    THEN <<FALSE, msg_dados_insuficientes>>
    ELSE IF algum_ausente(df) \/ algum_nao_positivo(df)
    THEN <<FALSE, msg_precos_invalidos>>
    ELSE <<TRUE, msg_dados_validos>>

\* The second argument (operacoes) is never read.
validar_dados_para_analise(df) ==
    IF Len(df) = 0
    THEN <<FALSE, msg_dados_vazios>>
    ELSE IF Len(df) < minimo_velas
    THEN <<FALSE, msg_dados_insuficientes>>
    ELSE IF algum_ausente(df) \/ algum_nao_positivo(df)
    THEN <<FALSE, msg_precos_invalidos>>
    ELSE <<TRUE, msg_dados_validos>>

\* Closes that are not valid prices: missing, zero, negative.
FechamentosInvalidos == {nan, 0, -1}

\* n candles of price c.
VelasConstantes(n, c) == [k \in 1..n |-> [high |-> c, close |-> c]]

\* The series df with the close of candle k replaced by x.
ComFechamento(df, k, x) == [df EXCEPT ![k].close = x]

\* Series of 0, 1, 2 and minimo_velas - 1 .. minimo_velas + 1 candles: all
\* closes valid, or exactly one candle, at any position, with an invalid one.
ComprimentosTestados ==
    {0, 1, 2, minimo_velas - 1, minimo_velas, minimo_velas + 1}

SeriesTestadas ==
    UNION {
        LET df == Serie(VelasConstantes(n, c))
        IN  {df} \cup {ComFechamento(df, k, x) :
                          k \in 1..n, x \in FechamentosInvalidos}
        : n \in ComprimentosTestados, c \in Precos }

InitDados ==
    /\ dados_historicos \in SeriesTestadas
    /\ quantidade_inicial = 1
    /\ percentual_desvalorizacao = 10
    /\ percentual_valorizacao = 10
    /\ pc = "validar_dados"
    /\ SimulacaoOciosa
    /\ ExternasOciosas

\* The call and its return value.
ValidarDados ==
    /\ pc = "validar_dados"
    /\ validacao' = validar_dados_para_analise(dados_historicos)
    /\ pc' = "validou"
    /\ UNCHANGED <<entradas, locais, retorno, config, mantissa, simulacao_iniciada,
                   exibicao, timestamp_busca, dados_completos, exchange>>

NextDados == ValidarDados

SpecDados == InitDados /\ [][NextDados]_vars

\* Candle k (1-based) has a close that is missing or not positive.
FechamentoInvalido(k) ==
    \/ dados_historicos[k].close = nan
    \/ dados_historicos[k].close <= 0

MensagensDeRejeicao ==
    {msg_dados_vazios, msg_dados_insuficientes, msg_precos_invalidos}

-----------------------------------------------------------------------------
\* buscar_dados_historicos (buscador_dados.py).  Time is counted in hours
\* from the midnight that starts data_inicio; the candles of the exchange
\* are Periodo hours apart.

horas_por_dia == 24

\* criar_sidebar_configuracao's dict: data_inicio is the first instant of its
\* day, data_fim the last hour of a day `dias` days later.
Configuracao(pd, pv, q, dias) ==
    [percentual_desvalorizacao |-> pd,
     percentual_valorizacao |-> pv,
     quantidade_inicial |-> q,
     data_inicio |-> 0,
     data_fim |-> horas_por_dia * dias + horas_por_dia - 1]

timestamp_inicio == config.data_inicio
timestamp_fim == config.data_fim

limite_por_request == 1000

\* exchange.fetch_ohlcv(simbolo, '4h', since=since, limit=limit) when it
\* answers: the first candles the exchange holds from `since` on, at most
\* `limit` of them and at most as many as the exchange gives in one answer.
fetch_ohlcv(since, limit) ==
    LET desde == SelectSeq(exchange.velas, LAMBDA v : v.timestamp >= since)
    IN  SubSeq(desde, 1, Min2(Min2(limit, exchange.maximo), Len(desde)))

\* Rows of dados_brutos that are the first with their timestamp.
primeiras_ocorrencias(dados_brutos) ==
    {k \in 1..Len(dados_brutos) :
        \A j \in 1..(k - 1) :
            dados_brutos[j].timestamp # dados_brutos[k].timestamp}

\* (position in the sorted frame, row of dados_brutos) for the rows kept.
posicoes_ordenadas(dados_brutos, mantidas) ==
    {<<1 + Cardinality({j \in mantidas :
                dados_brutos[j].timestamp < dados_brutos[k].timestamp}), k>> :
        k \in mantidas}

\* df.sort_values('timestamp').drop_duplicates(subset=['timestamp']): one
\* row per timestamp (the first fetched), in ascending order of timestamp.
processar_dados_ohlcv(dados_brutos) ==
    CHOOSE df \in UNION {
        {[m \in 1..Cardinality(mantidas) |->
             dados_brutos[CHOOSE k \in mantidas : <<m, k>> \in pares]] :
           pares \in {posicoes_ordenadas(dados_brutos, mantidas)}} :
        mantidas \in {primeiras_ocorrencias(dados_brutos)}} : TRUE

NoPeriodo(v) ==
    v.timestamp >= config.data_inicio /\ v.timestamp <= config.data_fim

\* df[(df['timestamp'] >= data_inicio) & (df['timestamp'] <= data_fim)]
filtrar_periodo(df) == SelectSeq(df, NoPeriodo)

app_vars == <<validacao, config, simulacao_iniciada, exibicao, exchange,
              mantissa>>

\* Lines 25-44: the exchange object, the two timestamps, the empty list.
IniciarBusca ==
    /\ pc = "busca_inicio"
    /\ timestamp_busca' = timestamp_inicio
    /\ dados_completos' = <<>>
    /\ pc' = "busca_while"
    /\ UNCHANGED <<entradas, locais, retorno, app_vars>>

CondicaoWhile == pc = "busca_while" /\ timestamp_busca < timestamp_fim

\* A batch with rows: extend, move past its last row, next iteration.
BuscarLote ==
    /\ CondicaoWhile
    /\ LET dados_batch == fetch_ohlcv(timestamp_busca, limite_por_request)
       IN  /\ Len(dados_batch) > 0
           /\ dados_completos' = dados_completos \o dados_batch
           /\ timestamp_busca' = dados_batch[Len(dados_batch)].timestamp + 1
    /\ pc' = "busca_while"
    /\ UNCHANGED <<entradas, locais, retorno, app_vars>>

\* if not dados_batch: break
LoteVazio ==
    /\ CondicaoWhile
    /\ Len(fetch_ohlcv(timestamp_busca, limite_por_request)) = 0
    /\ pc' = "busca_processar"
    /\ UNCHANGED <<entradas, locais, retorno, app_vars, timestamp_busca,
                   dados_completos>>

\* fetch_ohlcv raises ccxt.NetworkError.
NetworkError ==
    /\ CondicaoWhile
    /\ pc' = "busca_except_network"
    /\ UNCHANGED <<entradas, locais, retorno, app_vars, timestamp_busca,
                   dados_completos>>

\* except ccxt.NetworkError: warning, sleep(2), continue.
Reconectar ==
    /\ pc = "busca_except_network"
    /\ pc' = "busca_while"
    /\ UNCHANGED <<entradas, locais, retorno, app_vars, timestamp_busca,
                   dados_completos>>

\* fetch_ohlcv raises ccxt.ExchangeError.
ExchangeError ==
    /\ CondicaoWhile
    /\ pc' = "busca_except_exchange"
    /\ UNCHANGED <<entradas, locais, retorno, app_vars, timestamp_busca,
                   dados_completos>>

\* except ccxt.ExchangeError: warning, sleep(1), continue.
ContinuarAposErro ==
    /\ pc = "busca_except_exchange"
    /\ pc' = "busca_while"
    /\ UNCHANGED <<entradas, locais, retorno, app_vars, timestamp_busca,
                   dados_completos>>

\* The while condition is false: the position passed timestamp_fim.
FimDoPeriodo ==
    /\ pc = "busca_while"
    /\ ~(timestamp_busca < timestamp_fim)
    /\ pc' = "busca_processar"
    /\ UNCHANGED <<entradas, locais, retorno, app_vars, timestamp_busca,
                   dados_completos>>

\* Lines 77-82.  With no rows processar_dados_ohlcv gives a frame without
\* columns, the filter raises, and the outer handler returns an empty frame.
ProcessarERetornar ==
    /\ pc = "busca_processar"
    /\ dados_historicos' = filtrar_periodo(processar_dados_ohlcv(dados_completos))
    /\ pc' = "busca_retornou"
    /\ UNCHANGED <<quantidade_inicial, percentual_desvalorizacao,
                   percentual_valorizacao, locais, retorno, app_vars,
                   timestamp_busca, dados_completos>>

\* fetch_ohlcv raises anything else: except Exception returns an empty frame.
OutraExcecao ==
    /\ CondicaoWhile
    /\ dados_historicos' = <<>>
    /\ pc' = "busca_retornou"
    /\ UNCHANGED <<quantidade_inicial, percentual_desvalorizacao,
                   percentual_valorizacao, locais, retorno, app_vars,
                   timestamp_busca, dados_completos>>

NextBusca ==
    \/ IniciarBusca
    \/ BuscarLote
    \/ LoteVazio
    \/ NetworkError
    \/ Reconectar
    \/ ExchangeError
    \/ ContinuarAposErro
    \/ FimDoPeriodo
    \/ ProcessarERetornar
    \/ OutraExcecao

\* Periods of 1, 8, 28 and 29 days.
DiasTestados == {0, 7, 27, 28}

\* Rows an exchange gives in one answer: fewer than asked for, or as many.
MaximosPorResposta == {100, limite_por_request}

\* Exchanges holding 0 .. minimo_velas + 2 candles from the start of the
\* period on.
ExchangesTestadas ==
    {[velas |-> Serie(VelasConstantes(n, 10)), maximo |-> m] :
        n \in {0, 1, 47, minimo_velas, minimo_velas + 2},
        m \in MaximosPorResposta}

InitBusca ==
    /\ config \in {Configuracao(10, 10, 1, d) : d \in DiasTestados}
    /\ exchange \in ExchangesTestadas
    /\ pc = "busca_inicio"
    /\ dados_historicos = <<>>
    /\ quantidade_inicial = 1
    /\ percentual_desvalorizacao = 10
    /\ percentual_valorizacao = 10
    /\ SimulacaoOciosa
    /\ validacao = <<>>
    /\ simulacao_iniciada = FALSE
    /\ exibicao = "nada"
    /\ timestamp_busca = 0
    /\ dados_completos = <<>>
    /\ mantissa = 0

\* The function runs: some step is taken whenever one is possible.
SpecBusca == InitBusca /\ [][NextBusca]_vars /\ WF_vars(NextBusca)

BuscaRetornou == pc = "busca_retornou"

\* C14: under any pattern of ccxt.NetworkError / ccxt.ExchangeError from
\* fetch_ohlcv, including an exchange that fails on every request, the
\* pagination loop eventually terminates and buscar_dados_historicos returns
\* (an empty or partial series).
C14_BuscaTermina == <>BuscaRetornou

-----------------------------------------------------------------------------
\* The application (aplicativo.py): one run of main, from the configuration
\* of the sidebar to the page it leaves.  The fetch and the simulation are
\* the steps modelled above, run in place.

periodo_minimo_dias == 7

msg_datas == "Data de fim deve ser posterior a data de inicio"
msg_periodo == "Periodo minimo de analise e 7 dias"
msg_configuracoes_validas == "Configuracoes validas"

\* (config['data_fim'] - config['data_inicio']).days
diferenca_dias(cfg) == (cfg.data_fim - cfg.data_inicio) \div horas_por_dia

validar_configuracoes(cfg) ==
    IF cfg.data_fim <= cfg.data_inicio
    THEN <<FALSE, msg_datas>>
    ELSE IF diferenca_dias(cfg) < periodo_minimo_dias
    THEN <<FALSE, msg_periodo>>
    ELSE IF ~validar_parametros_estrategia(R(cfg.percentual_desvalorizacao),
                                           R(cfg.percentual_valorizacao),
                                           R(cfg.quantidade_inicial))[1]
    THEN <<FALSE, validar_parametros_estrategia(
                      R(cfg.percentual_desvalorizacao),
                      R(cfg.percentual_valorizacao),
                      R(cfg.quantidade_inicial))[2]>>
    ELSE <<TRUE, msg_configuracoes_validas>>

busca_vars == <<timestamp_busca, dados_completos, exchange>>

\* main, lines 296-300: st.error and return.
ConfiguracaoRejeitada ==
    /\ pc = "main"
    /\ ~validar_configuracoes(config)[1]
    /\ validacao' = validar_configuracoes(config)
    /\ exibicao' = "erro_configuracao"
    /\ pc' = "fim"
    /\ UNCHANGED <<entradas, locais, retorno, config, mantissa, simulacao_iniciada,
                   busca_vars>>

\* main, lines 296-318: the summary and the button are drawn.
ConfiguracaoAceita ==
    /\ pc = "main"
    /\ validar_configuracoes(config)[1]
    /\ validacao' = validar_configuracoes(config)
    /\ pc' = "botao"
    /\ UNCHANGED <<entradas, locais, retorno, config, mantissa, simulacao_iniciada,
                   exibicao, busca_vars>>

\* st.button(...) is False: the run ends with nothing executed.
BotaoNaoClicado ==
    /\ pc = "botao"
    /\ pc' = "fim"
    /\ UNCHANGED <<entradas, locais, retorno, externas>>

\* st.button(...) is True: executar_simulacao_completa calls the fetch.
BotaoClicado ==
    /\ pc = "botao"
    /\ pc' = "busca_inicio"
    /\ UNCHANGED <<entradas, locais, retorno, externas>>

\* Variant of DadosAceitos: the simulation is called whatever the data
\* validation answered.
DadosAceitos_sem_validacao ==
    /\ pc = "busca_retornou"
    /\ validacao' = validar_dados_para_analise(dados_historicos)
    /\ quantidade_inicial' = config.quantidade_inicial
    /\ percentual_desvalorizacao' = config.percentual_desvalorizacao
    /\ percentual_valorizacao' = config.percentual_valorizacao
    /\ simulacao_iniciada' = TRUE
    /\ pc' = "inicio"
    /\ UNCHANGED <<dados_historicos, locais, retorno, config, mantissa, exibicao,
                   busca_vars>>

\* executar_simulacao_completa, lines 175-178: st.error and return.
DadosRejeitados ==
    /\ pc = "busca_retornou"
    /\ ~validar_dados_para_analise(dados_historicos)[1]
    /\ validacao' = validar_dados_para_analise(dados_historicos)
    /\ exibicao' = "erro_dados"
    /\ pc' = "fim"
    /\ UNCHANGED <<entradas, locais, retorno, config, mantissa, simulacao_iniciada,
                   busca_vars>>

\* executar_simulacao_completa, lines 175-192: the call of
\* executar_simulacao_estrategia with the fetched series and the parameters
\* of the configuration.
DadosAceitos ==
    /\ pc = "busca_retornou"
    /\ validar_dados_para_analise(dados_historicos)[1]
    /\ validacao' = validar_dados_para_analise(dados_historicos)
    /\ quantidade_inicial' = config.quantidade_inicial
    /\ percentual_desvalorizacao' = config.percentual_desvalorizacao
    /\ percentual_valorizacao' = config.percentual_valorizacao
    /\ simulacao_iniciada' = TRUE
    /\ pc' = "inicio"
    /\ UNCHANGED <<dados_historicos, locais, retorno, config, mantissa, exibicao,
                   busca_vars>>

\* The steps of executar_simulacao_estrategia on a series that passed the
\* data validation (so never the empty one).
NextSimulacao ==
    \/ Inicializar
    \/ Venda
    \/ ManterComprado
    \/ Compra
    \/ ManterVendido
    \/ Retorno

\* exibir_resultados: a warning when the log is empty, else the chart, the
\* metrics, the table and the report.
ExibirResultados ==
    /\ pc = "retornou"
    /\ exibicao' = IF retorno[1] = <<>> THEN "aviso_sem_operacoes"
                                        ELSE "resultados"
    /\ pc' = "fim"
    /\ UNCHANGED <<entradas, locais, retorno, validacao, config, mantissa,
                   simulacao_iniciada, busca_vars>>

NextApp ==
    \/ ConfiguracaoRejeitada
    \/ ConfiguracaoAceita
    \/ BotaoNaoClicado
    \/ BotaoClicado
    \/ NextBusca
    \/ DadosRejeitados
    \/ DadosAceitos
    \/ NextSimulacao
    \/ ExibirResultados

\* What the sliders and the date inputs of the sidebar can give: percentages
\* in 3 .. 10, a positive quantity, data_fim 0 or more days after data_inicio.
PercentuaisSlider == {3, 10}
DiasApp == {0, 6, 7, 27, 28}

ConfiguracoesApp ==
    {Configuracao(pd, pv, 1, d) :
        pd \in PercentuaisSlider, pv \in PercentuaisSlider, d \in DiasApp}

\* Series of the exchange: a first candle, flat candles, a last candle;
\* every close valid, or the close of the fifth candle invalid.
SeriesApp ==
    UNION {
        LET df == Serie(<<v>> \o VelasConstantes(n, 10) \o <<w>>)
        IN  {df} \cup {ComFechamento(df, 5, x) : x \in FechamentosInvalidos}
        : v \in {[high |-> 12, close |-> 11]},
          w \in {[high |-> 11, close |-> 11]},
          n \in {98, minimo_velas - 2, minimo_velas + 4} }

ExchangesApp ==
    {[velas |-> df, maximo |-> m] :
        df \in SeriesApp \cup {<<>>}, m \in MaximosPorResposta}

InitApp ==
    /\ config \in ConfiguracoesApp
    /\ exchange \in ExchangesApp
    /\ pc = "main"
    /\ dados_historicos = <<>>
    /\ quantidade_inicial = 0
    /\ percentual_desvalorizacao = 0
    /\ percentual_valorizacao = 0
    /\ SimulacaoOciosa
    /\ validacao = <<>>
    /\ simulacao_iniciada = FALSE
    /\ exibicao = "nada"
    /\ timestamp_busca = 0
    /\ dados_completos = <<>>
    /\ mantissa = 0

SpecApp == InitApp /\ [][NextApp]_vars

\* The simulation function is running or has returned.
NaSimulacao == pc \in {"inicio", "loop", "retornou"}

\* The two checks, evaluated on the configuration and on the fetched series.
ConfiguracaoValida ==
    /\ config.data_fim > config.data_inicio
    /\ (config.data_fim - config.data_inicio) \div 24 >= 7
    /\ config.percentual_desvalorizacao \in 1..20
    /\ config.percentual_valorizacao \in 1..20
    /\ config.quantidade_inicial > 0

DadosValidos ==
    /\ NumVelas >= 168
    /\ \A k \in 1..NumVelas : ~FechamentoInvalido(k)

ResultadosExibidos == exibicao \in {"resultados", "aviso_sem_operacoes"}

\* C13: in the application flow executar_simulacao_estrategia is invoked
\* only after validar_configuracoes accepted the configuration and
\* validar_dados_para_analise accepted the fetched series; when either
\* rejects, the simulation is never started and no results are displayed
\* for that run.
C13_ValidacaoAntesDaSimulacao ==
    /\ (NaSimulacao \/ simulacao_iniciada \/ ResultadosExibidos) =>
          ConfiguracaoValida /\ DadosValidos
    /\ exibicao \in {"erro_configuracao", "erro_dados"} =>
          /\ pc = "fim"
          /\ ~simulacao_iniciada
          /\ operacoes = <<>>
          /\ retorno = <<>>
    /\ ~ConfiguracaoValida =>
          pc \in {"main", "fim"} /\ ~simulacao_iniciada /\ ~ResultadosExibidos
    /\ (pc = "fim" /\ ~simulacao_iniciada) => ~ResultadosExibidos

\* A run whose data validation accepted a series fetched in two batches,
\* simulated with trades and shown.
C13_Witness ==
    /\ exibicao = "resultados"
    /\ Len(operacoes) >= 2
    /\ NumVelas >= 168
    /\ exchange.maximo < NumVelas

-----------------------------------------------------------------------------
\* executar_simulacao_estrategia with float arithmetic.  The code computes
\* in binary64 (53 significant bits); the model keeps the format, rounding
\* to nearest with ties to even after every operation, and narrows the
\* significand.  Every price, percentage and quantity of the inputs, and
\* the constants 1 and 100, are floats of this width.

BitsMantissa == 8

QuantidadesBinarias == {1, 25}

InitBinaria ==
    /\ dados_historicos \in SeriesCurtas
    /\ quantidade_inicial \in QuantidadesBinarias
    /\ \E par \in Parametros :
          /\ percentual_desvalorizacao = par[1]
          /\ percentual_valorizacao = par[2]
    /\ pc = "inicio"
    /\ i = 0
    /\ estado_atual = "COMPRADO"
    /\ operacoes = <<>>
    /\ quantidade_tokens_atual = R(quantidade_inicial)
    /\ preco_minimo_apos_venda = inf
    /\ indice_venda = -1
    /\ retorno = <<>>
    /\ validacao = <<>>
    /\ config = <<>>
    /\ simulacao_iniciada = FALSE
    /\ exibicao = "nada"
    /\ timestamp_busca = 0
    /\ dados_completos = <<>>
    /\ exchange = <<>>
    /\ mantissa = BitsMantissa

SpecBinaria == InitBinaria /\ [][Next]_vars

\* COMPRAs of the log bought back below / above the price of the VENDA
\* before them.
CompradasAbaixo ==
    {k \in 2..Len(operacoes) :
        EhCompra(k) /\ operacoes[k].preco < operacoes[k - 1].preco}
CompradasAcima ==
    {k \in 2..Len(operacoes) :
        EhCompra(k) /\ operacoes[k].preco > operacoes[k - 1].preco}
NumCompras == Cardinality({k \in 1..Len(operacoes) : EhCompra(k)})

\* C17: a COMPRA's lucro_operacao is > 0 exactly when its price is strictly
\* below the price of the preceding VENDA, < 0 exactly when it is strictly
\* above, and 0 when they are equal; operacoes_lucrativas and
\* operacoes_prejuizo count the cycles bought back below / above the sell
\* price, and their sum is at most the number of COMPRAs, which is at most
\* total_operacoes / 2.
C17_SinalDoLucro ==
    /\ \A k \in 2..Len(operacoes) :
          EhCompra(k) =>
              LET lucro == operacoes[k].lucro_operacao
                  venda == operacoes[k - 1].preco
                  compra == operacoes[k].preco
              IN  /\ RGt(lucro, R(0)) <=> compra < venda
                  /\ RLt(lucro, R(0)) <=> compra > venda
                  /\ compra = venda => lucro = R(0)
    /\ (Retornou /\ NumVelas > 0) =>
          /\ retorno[2].operacoes_lucrativas = Cardinality(CompradasAbaixo)
          /\ retorno[2].operacoes_prejuizo = Cardinality(CompradasAcima)
          /\ retorno[2].operacoes_lucrativas + retorno[2].operacoes_prejuizo
                <= NumCompras
          /\ 2 * NumCompras <= retorno[2].total_operacoes

=============================================================================
